---- MODULE Spec2Model ----
(***************************************************************************)
(* A model of the CIRO tokenomics engine (src/src/tokenomics_engine.py):   *)
(* the parameters, the simulation state of CIROTokenomicsEngine, and its   *)
(* operations reset_state, step, simulate_governance_change,               *)
(* run_simulation and stress_test.                                         *)
(*                                                                         *)
(* Numbers.  The engine computes in floating point; the model computes in  *)
(* fixed point over the integers:                                          *)
(*   - token amounts are whole tokens;                                     *)
(*   - USD amounts and prices are in thousandths of a dollar               *)
(*     (0.01 USD = 10, the price floor);                                   *)
(*   - rates, ratios and the random perturbation are in thousandths        *)
(*     (RateScale = 1000: 0.10 = 100, 0.005 = 5).                          *)
(* Every division rounds towards minus infinity (FDiv).  A product of a    *)
(* quantity and a rate is divided by RateScale once, after multiplying.    *)
(* A division by zero is the ZeroDivisionError Python raises there: the    *)
(* operation stops at that line, keeping the assignments made before it.   *)
(***************************************************************************)
EXTENDS Integers, Sequences, FiniteSets, TLC

VARIABLES
    params,                  \* self.params: CIROParameters (mutated by stress_test)
    month,                   \* self.month
    current_supply,          \* self.current_supply
    circulating_supply,      \* self.circulating_supply
    price,                   \* self.price
    total_burned,            \* self.total_burned
    treasury_usd,            \* self.treasury_usd
    pol_size,                \* self.pol_size
    security_budget_annual,  \* self.security_budget_annual
    last_governance_change,  \* self.last_governance_change
    current_inflation_rate,  \* self.current_inflation_rate
    current_burn_rate,       \* self.current_burn_rate
    history,                 \* self.history: ten series
    call,                    \* the run_simulation / stress_test call in progress
    entry_params,            \* self.params as the last such call found them
    ret                      \* how the last finished call ended, and its value

engine == <<month, current_supply, circulating_supply, price, total_burned,
            treasury_usd, pol_size, security_budget_annual,
            last_governance_change, current_inflation_rate,
            current_burn_rate, history>>

vars == <<params, month, current_supply, circulating_supply, price,
          total_burned, treasury_usd, pol_size, security_budget_annual,
          last_governance_change, current_inflation_rate, current_burn_rate,
          history, call, entry_params, ret>>

(***************************************************************************)
(* Fixed point                                                             *)
(***************************************************************************)
RateScale == 1000

Max(a, b) == IF a >= b THEN a ELSE b

Min(a, b) == IF a <= b THEN a ELSE b

Abs(a) == IF a >= 0 THEN a ELSE -a

\* a / b for b # 0, rounded towards minus infinity.
FDiv(a, b) == IF b > 0 THEN a \div b ELSE (-a) \div (-b)

(***************************************************************************)
(* CIROParameters.  Three parameter sets, in the model's units.            *)
(* BaselineParams is the dataclass's defaults with token and USD amounts   *)
(* divided by 50,000 (the engine's equations are homogeneous in that       *)
(* scale; prices and rates are unchanged).                                 *)
(***************************************************************************)
BaselineParams ==
    [ total_supply            |-> 20000,
      initial_circulating     |-> 1000,
      initial_price           |-> 80,
      public_launch_price     |-> 500,
      inflation_schedule      |-> [year_1 |-> 80, year_2 |-> 50, year_3 |-> 30,
                                   year_4 |-> 10, year_5plus |-> 10],
      burn_schedule           |-> [month_1_12 |-> 300, month_13_36 |-> 500,
                                   month_37_60 |-> 700, month_61plus |-> 800],
      security_floor_usd      |-> 40000,
      guard_band_inflation    |-> 30,
      fee_coverage_threshold  |-> 600,
      max_governance_increase |-> 100,
      max_governance_decrease |-> 150,
      epoch_length_days       |-> 30,
      pol_target_usd          |-> 80000,
      max_burn_slippage       |-> 10,
      min_burn_amount         |-> 2000,
      revenue_targets         |-> <<10000, 50000, 200000, 500000, 1000000>> ]

\* A thin market: few tokens circulating, no inflation in year 1, no slippage
\* allowance, a revenue that buys back the whole circulating supply.
ThinMarketParams ==
    [ BaselineParams EXCEPT
        !.initial_circulating     = 110,
        !.initial_price           = 10,
        !.inflation_schedule      = [year_1 |-> 0, year_2 |-> 50, year_3 |-> 30,
                                     year_4 |-> 10, year_5plus |-> 10],
        !.burn_schedule           = [month_1_12 |-> 500, month_13_36 |-> 500,
                                     month_37_60 |-> 700, month_61plus |-> 800],
        !.guard_band_inflation    = 0,
        !.max_governance_increase = 100,
        !.max_governance_decrease = 50,
        !.max_burn_slippage       = 0,
        !.min_burn_amount         = 1000,
        !.revenue_targets         = <<240000, 240000, 240000, 240000, 240000>> ]

\* The thin market with a tenth of the revenue: the first month's auction buys
\* back exactly the circulating supply.
BuybackParams ==
    [ ThinMarketParams EXCEPT
        !.revenue_targets = <<24000, 24000, 24000, 24000, 24000>> ]

\* The defaults with a revenue that stays below the security budget's
\* coverage threshold in years 3 to 5, when the schedule rate is at or below
\* the guard-band rate.
LowRevenueParams ==
    [ BaselineParams EXCEPT
        !.revenue_targets = <<10000, 20000, 20000, 20000, 20000>> ]

ParameterSets == {BaselineParams, ThinMarketParams, BuybackParams, LowRevenueParams}

(***************************************************************************)
(* Schedule lookups                                                        *)
(***************************************************************************)
\* get_inflation_rate reading the "year_5+" entry from year 5 on.
get_inflation_rate_reads_year_5plus(m, p) ==
    LET year == (m \div 12) + 1
    IN  IF year = 1 THEN p.inflation_schedule.year_1
        ELSE IF year = 2 THEN p.inflation_schedule.year_2
        ELSE IF year = 3 THEN p.inflation_schedule.year_3
        ELSE IF year = 4 THEN p.inflation_schedule.year_4
        ELSE p.inflation_schedule.year_5plus

\* get_inflation_rate: the schedule rate of month m (it is also stored in
\* current_inflation_rate, see step).
get_inflation_rate(m, p) ==
    LET year == (m \div 12) + 1
    IN  IF year = 1 THEN p.inflation_schedule.year_1
        ELSE IF year = 2 THEN p.inflation_schedule.year_2
        ELSE IF year = 3 THEN p.inflation_schedule.year_3
        ELSE p.inflation_schedule.year_4

get_burn_rate(m, p) ==
    IF m <= 12 THEN p.burn_schedule.month_1_12
    ELSE IF m <= 36 THEN p.burn_schedule.month_13_36
    ELSE IF m <= 60 THEN p.burn_schedule.month_37_60
    ELSE p.burn_schedule.month_61plus

\* 1 + 0.2 * sin(2 * pi * k / 12), in thousandths, for k = month % 12.
SeasonalFactor ==
    [k \in 0..11 |->
        CASE k = 0 -> 1000 [] k = 1 -> 1100 [] k = 2  -> 1173 [] k = 3  -> 1200
          [] k = 4 -> 1173 [] k = 5 -> 1100 [] k = 6  -> 1000 [] k = 7  -> 900
          [] k = 8 -> 827  [] k = 9 -> 800  [] k = 10 -> 827  [] k = 11 -> 900]

\* x * 1.3 ** n
RECURSIVE GrowthAfterYear5(_, _)
GrowthAfterYear5(x, n) ==
    IF n <= 0 THEN x ELSE GrowthAfterYear5(FDiv(x * 13, 10), n - 1)

get_revenue(m, p) ==
    LET year          == (m \div 12) + 1
        annual_target == IF year <= 5
                         THEN p.revenue_targets[year]
                         ELSE GrowthAfterYear5(p.revenue_targets[5], year - 5)
        base_monthly  == FDiv(annual_target, 12)
    IN  FDiv(base_monthly * SeasonalFactor[m % 12], RateScale)

(***************************************************************************)
(* The simulation state, as a record e of the engine's fields.             *)
(***************************************************************************)
EmptyHistory ==
    [ month              |-> <<>>,
      price              |-> <<>>,
      circulating_supply |-> <<>>,
      monthly_inflation  |-> <<>>,
      monthly_burns      |-> <<>>,
      net_supply_change  |-> <<>>,
      market_cap         |-> <<>>,
      revenue            |-> <<>>,
      security_budget    |-> <<>>,
      governance_events  |-> <<>> ]

reset_state(p) ==
    [ month                  |-> 0,
      current_supply         |-> p.total_supply,
      circulating_supply     |-> p.initial_circulating,
      price                  |-> p.initial_price,
      total_burned           |-> 0,
      treasury_usd           |-> 0,
      pol_size               |-> 0,
      security_budget_annual |-> p.security_floor_usd,
      last_governance_change |-> 0,
      current_inflation_rate |-> p.inflation_schedule.year_1,
      current_burn_rate      |-> p.burn_schedule.month_1_12,
      history                |-> EmptyHistory ]

\* max(security_floor_usd, market_cap * 0.005), and 0.005 = 1 / 200
calculate_security_budget_needed(circ, pr, p) ==
    Max(p.security_floor_usd, FDiv(circ * pr, 200))

\* monthly_revenue * 12 < required_security * fee_coverage_threshold
check_security_guard_band(monthly_revenue, circ, pr, p) ==
    monthly_revenue * 12 * RateScale
        < calculate_security_budget_needed(circ, pr, p) * p.fee_coverage_threshold

(***************************************************************************)
(* simulate_governance_change                                              *)
(***************************************************************************)
\* governance_rejects without the check of the magnitude.
governance_rejects_decrease_only(proposed_inflation_change, p) ==
    proposed_inflation_change < -p.max_governance_decrease

\* The two limit checks: TRUE when the proposal is rejected.
governance_rejects(proposed_inflation_change, p) ==
    \/ Abs(proposed_inflation_change) > p.max_governance_increase
    \/ proposed_inflation_change < -p.max_governance_decrease

\* simulate_governance_change recording the month of a rejected proposal too.
simulate_governance_change_stamps_rejection(e, p, proposed_inflation_change) ==
    IF governance_rejects(proposed_inflation_change, p)
    THEN [accepted |-> FALSE, e |-> [e EXCEPT !.last_governance_change = e.month]]
    ELSE LET applied == Max(0, e.current_inflation_rate + proposed_inflation_change)
         IN  [accepted |-> TRUE,
              e |-> [e EXCEPT
                       !.current_inflation_rate = applied,
                       !.last_governance_change = e.month,
                       !.history.governance_events =
                           Append(@, [month    |-> e.month,
                                      change   |-> proposed_inflation_change,
                                      new_rate |-> applied])]]

\* simulate_governance_change without the max(0, ...) of line 236.
simulate_governance_change_unclamped(e, p, proposed_inflation_change) ==
    IF governance_rejects(proposed_inflation_change, p)
    THEN [accepted |-> FALSE, e |-> e]
    ELSE LET new_rate == e.current_inflation_rate + proposed_inflation_change
         IN  [accepted |-> TRUE,
              e |-> [e EXCEPT
                       !.current_inflation_rate = new_rate,
                       !.last_governance_change = e.month,
                       !.history.governance_events =
                           Append(@, [month    |-> e.month,
                                      change   |-> proposed_inflation_change,
                                      new_rate |-> new_rate])]]

simulate_governance_change(e, p, proposed_inflation_change) ==
    IF governance_rejects(proposed_inflation_change, p)
    THEN [accepted |-> FALSE, e |-> e]
    ELSE LET new_rate == e.current_inflation_rate + proposed_inflation_change
             applied  == Max(0, new_rate)
             event    == [month    |-> e.month,
                          change   |-> proposed_inflation_change,
                          new_rate |-> applied]
         IN  [accepted |-> TRUE,
              e |-> [e EXCEPT
                       !.current_inflation_rate = applied,
                       !.last_governance_change = e.month,
                       !.history.governance_events = Append(@, event)]]

(***************************************************************************)
(* execute_burn_auction, on the state e in which step has already          *)
(* incremented month and added the minted tokens.  raised: the division by *)
(* circulating_supply raised ZeroDivisionError (price is never 0: it       *)
(* starts positive and step clamps it to the floor).                       *)
(***************************************************************************)
burn_target_usd(revenue_usd, e, p) ==
    FDiv(revenue_usd * get_burn_rate(e.month, p), RateScale)

\* apply_burn leaving the circulating supply as it was.
apply_burn_keeps_supply(e, p, actual_tokens_burned, target) ==
    [e EXCEPT !.total_burned = @ + actual_tokens_burned]

\* apply_burn taking the burned tokens off the cumulative burn.
apply_burn_lowers_total(e, p, actual_tokens_burned, target) ==
    [e EXCEPT !.circulating_supply = @ - actual_tokens_burned,
              !.total_burned       = @ - actual_tokens_burned]

\* apply_burn adding a tenth of the target to the POL up to the last auction
\* that finds it below the target.
apply_burn_uncapped_pol(e, p, actual_tokens_burned, target) ==
    LET pol_addition ==
            IF e.pol_size < p.pol_target_usd THEN FDiv(target, 10) ELSE 0
    IN  [e EXCEPT !.circulating_supply = @ - actual_tokens_burned,
                  !.total_burned       = @ + actual_tokens_burned,
                  !.pol_size           = @ + pol_addition]

\* Lines 264-271: the supply, the cumulative burn and the POL after an auction
\* that burned actual_tokens_burned for a target of target USD.
apply_burn(e, p, actual_tokens_burned, target) ==
    LET pol_addition ==
            IF e.pol_size < p.pol_target_usd
            THEN Min(FDiv(target, 10), p.pol_target_usd - e.pol_size)
            ELSE 0
    IN  [e EXCEPT !.circulating_supply = @ - actual_tokens_burned,
                  !.total_burned       = @ + actual_tokens_burned,
                  !.pol_size           = @ + pol_addition]

\* execute_burn_auction whose skipped auction still feeds the POL.
execute_burn_auction_skip_feeds_pol(revenue_usd, e, p) ==
    LET target == burn_target_usd(revenue_usd, e, p)
    IN  IF target < p.min_burn_amount
        THEN [raised |-> FALSE, tokens_burned |-> 0, usd_spent |-> 0,
              e |-> [e EXCEPT !.pol_size = @ + FDiv(target, 10)]]
        ELSE IF e.circulating_supply = 0
        THEN [raised |-> TRUE, tokens_burned |-> 0, usd_spent |-> 0, e |-> e]
        ELSE
        LET tokens_before_slippage == FDiv(target, e.price)
            slippage_factor ==
                Min(p.max_burn_slippage,
                    FDiv(tokens_before_slippage * RateScale, e.circulating_supply))
            actual_tokens_burned ==
                FDiv(tokens_before_slippage * (RateScale - slippage_factor), RateScale)
            actual_usd_spent ==
                FDiv(actual_tokens_burned * e.price * (RateScale + slippage_factor),
                     RateScale)
        IN  [raised        |-> FALSE,
             tokens_burned |-> actual_tokens_burned,
             usd_spent     |-> actual_usd_spent,
             e             |-> apply_burn(e, p, actual_tokens_burned, target)]

execute_burn_auction(revenue_usd, e, p) ==
    LET target == burn_target_usd(revenue_usd, e, p)
    IN  IF target < p.min_burn_amount
        THEN [raised |-> FALSE, tokens_burned |-> 0, usd_spent |-> 0, e |-> e]
        ELSE IF e.circulating_supply = 0
        THEN [raised |-> TRUE, tokens_burned |-> 0, usd_spent |-> 0, e |-> e]
        ELSE
        LET tokens_before_slippage == FDiv(target, e.price)
            slippage_factor ==
                Min(p.max_burn_slippage,
                    FDiv(tokens_before_slippage * RateScale, e.circulating_supply))
            actual_tokens_burned ==
                FDiv(tokens_before_slippage * (RateScale - slippage_factor), RateScale)
            actual_usd_spent ==
                FDiv(actual_tokens_burned * e.price * (RateScale + slippage_factor),
                     RateScale)
        IN  [raised        |-> FALSE,
             tokens_burned |-> actual_tokens_burned,
             usd_spent     |-> actual_usd_spent,
             e             |-> apply_burn(e, p, actual_tokens_burned, target)]

(***************************************************************************)
(* estimate_volatility.  Only whether the result is zero matters to the    *)
(* model (a normal draw of scale 0 is 0): 150 is the 0.15 default, 0 is a  *)
(* window of equal returns, and any other window gives a positive value,   *)
(* modelled as 1.                                                          *)
(***************************************************************************)
estimate_volatility(e) ==
    LET prices == e.history.price
        n      == Len(prices)
    IN  IF n < 30 THEN 150
        ELSE IF \A i, j \in (n - 29)..(n - 1) :
                    (prices[i + 1] - prices[i]) * prices[j]
                        = (prices[j + 1] - prices[j]) * prices[i]
             THEN 0
             ELSE 1

NoSnapshot ==
    [ month |-> 0, price |-> 0, circulating |-> 0, minted |-> 0, burned |-> 0,
      total_burned |-> 0, revenue |-> 0, market_cap |-> 0 ]

(***************************************************************************)
(* step, with eps the normal draw.  raised: a ZeroDivisionError left the   *)
(* state as the lines before it made it, and no snapshot is returned.      *)
(***************************************************************************)
PriceFloor == 10

\* step_inflation_rate starting from the rate governance has set, when it
\* has set one.
step_inflation_rate_keeps_governance(e, p) ==
    LET m               == e.month + 1
        monthly_revenue == get_revenue(m, p)
        inflation_rate  == IF e.history.governance_events # <<>>
                           THEN e.current_inflation_rate
                           ELSE get_inflation_rate(m, p)
    IN  IF check_security_guard_band(monthly_revenue, e.circulating_supply, e.price, p)
        THEN Max(inflation_rate, p.guard_band_inflation)
        ELSE inflation_rate

\* step_inflation_rate whose triggered guard-band replaces the schedule rate.
step_inflation_rate_guard_band_replaces(e, p) ==
    LET m               == e.month + 1
        monthly_revenue == get_revenue(m, p)
        inflation_rate  == get_inflation_rate(m, p)
    IN  IF check_security_guard_band(monthly_revenue, e.circulating_supply, e.price, p)
        THEN p.guard_band_inflation
        ELSE inflation_rate

\* Lines 294-301: the schedule rate, raised to the guard-band rate when the
\* guard-band triggers on the state at entry.
step_inflation_rate(e, p) ==
    LET m               == e.month + 1
        monthly_revenue == get_revenue(m, p)
        inflation_rate  == get_inflation_rate(m, p)
    IN  IF check_security_guard_band(monthly_revenue, e.circulating_supply, e.price, p)
        THEN Max(inflation_rate, p.guard_band_inflation)
        ELSE inflation_rate

\* update_price without the floor.
update_price_unclamped(new_tokens, tokens_burned, monthly_revenue, e, eps) ==
    LET supply_pressure ==
            FDiv((new_tokens - tokens_burned) * RateScale, e.circulating_supply)
        revenue_support ==
            FDiv(monthly_revenue * RateScale, e.circulating_supply * e.price)
        price_change ==
            FDiv((revenue_support - supply_pressure) * (RateScale + eps), RateScale)
    IN  FDiv(e.price * (RateScale + price_change), RateScale)

\* Lines 312-317: the new price.
update_price(new_tokens, tokens_burned, monthly_revenue, e, eps) ==
    LET supply_pressure ==
            FDiv((new_tokens - tokens_burned) * RateScale, e.circulating_supply)
        revenue_support ==
            FDiv(monthly_revenue * RateScale, e.circulating_supply * e.price)
        price_change ==
            FDiv((revenue_support - supply_pressure) * (RateScale + eps), RateScale)
    IN  Max(PriceFloor, FDiv(e.price * (RateScale + price_change), RateScale))

\* step without the append to the market_cap series.
step_drops_market_cap_series(e, p, eps) ==
    LET m               == e.month + 1
        monthly_revenue == get_revenue(m, p)
        new_tokens      == FDiv(e.circulating_supply * step_inflation_rate(e, p),
                                RateScale * 12)
        e1 == [e EXCEPT !.month = m,
                        !.current_inflation_rate = get_inflation_rate(m, p),
                        !.circulating_supply = @ + new_tokens]
        auction == execute_burn_auction(monthly_revenue, e1, p)
        e2 == auction.e
    IN  IF auction.raised \/ e2.circulating_supply = 0
        THEN [raised |-> TRUE, e |-> e2, snapshot |-> NoSnapshot]
        ELSE
        LET tokens_burned     == auction.tokens_burned
            new_price         == update_price(new_tokens, tokens_burned,
                                              monthly_revenue, e2, eps)
            market_cap        == e2.circulating_supply * new_price
            net_supply_change == new_tokens - tokens_burned
            security_budget   ==
                calculate_security_budget_needed(e2.circulating_supply, new_price, p)
            h == e2.history
        IN  [raised |-> FALSE,
             e |-> [e2 EXCEPT
                 !.price = new_price,
                 !.security_budget_annual = security_budget,
                 !.history =
                   [ month              |-> Append(h.month, m),
                     price              |-> Append(h.price, new_price),
                     circulating_supply |-> Append(h.circulating_supply,
                                                   e2.circulating_supply),
                     monthly_inflation  |-> Append(h.monthly_inflation, new_tokens),
                     monthly_burns      |-> Append(h.monthly_burns, tokens_burned),
                     net_supply_change  |-> Append(h.net_supply_change,
                                                   net_supply_change),
                     market_cap         |-> h.market_cap,
                     revenue            |-> Append(h.revenue, monthly_revenue),
                     security_budget    |-> Append(h.security_budget, security_budget),
                     governance_events  |-> h.governance_events ]],
             snapshot |->
                 [ month        |-> m,
                   price        |-> new_price,
                   circulating  |-> e2.circulating_supply,
                   minted       |-> new_tokens,
                   burned       |-> tokens_burned,
                   total_burned |-> e2.total_burned,
                   revenue      |-> monthly_revenue,
                   market_cap   |-> market_cap ]]

step(e, p, eps) ==
    LET m               == e.month + 1
        monthly_revenue == get_revenue(m, p)
        new_tokens      == FDiv(e.circulating_supply * step_inflation_rate(e, p),
                                RateScale * 12)
        e1 == [e EXCEPT !.month = m,
                        !.current_inflation_rate = get_inflation_rate(m, p),
                        !.circulating_supply = @ + new_tokens]
        auction == execute_burn_auction(monthly_revenue, e1, p)
        e2 == auction.e
    IN  IF auction.raised \/ e2.circulating_supply = 0
        THEN [raised |-> TRUE, e |-> e2, snapshot |-> NoSnapshot]
        ELSE
        LET tokens_burned     == auction.tokens_burned
            new_price         == update_price(new_tokens, tokens_burned,
                                              monthly_revenue, e2, eps)
            market_cap        == e2.circulating_supply * new_price
            net_supply_change == new_tokens - tokens_burned
            security_budget   ==
                calculate_security_budget_needed(e2.circulating_supply, new_price, p)
            h == e2.history
        IN  [raised |-> FALSE,
             e |-> [e2 EXCEPT
                 !.price = new_price,
                 !.security_budget_annual = security_budget,
                 !.history =
                   [ month              |-> Append(h.month, m),
                     price              |-> Append(h.price, new_price),
                     circulating_supply |-> Append(h.circulating_supply,
                                                   e2.circulating_supply),
                     monthly_inflation  |-> Append(h.monthly_inflation, new_tokens),
                     monthly_burns      |-> Append(h.monthly_burns, tokens_burned),
                     net_supply_change  |-> Append(h.net_supply_change,
                                                   net_supply_change),
                     market_cap         |-> Append(h.market_cap, market_cap),
                     revenue            |-> Append(h.revenue, monthly_revenue),
                     security_budget    |-> Append(h.security_budget, security_budget),
                     governance_events  |-> h.governance_events ]],
             snapshot |->
                 [ month        |-> m,
                   price        |-> new_price,
                   circulating  |-> e2.circulating_supply,
                   minted       |-> new_tokens,
                   burned       |-> tokens_burned,
                   total_burned |-> e2.total_burned,
                   revenue      |-> monthly_revenue,
                   market_cap   |-> market_cap ]]

(***************************************************************************)
(* run_simulation and stress_test                                          *)
(***************************************************************************)
StressMonths == 60

Scenarios == {"bear_market", "governance_attack", "revenue_failure", "other"}

\* Lines 359-364 and 390-392: the parameters a scenario runs under.
stress_mutation(p, scenario) ==
    IF scenario = "bear_market"
    THEN [p EXCEPT !.initial_price   = FDiv(@ * 3, 10),
                   !.revenue_targets = [k \in 1..5 |-> FDiv(@[k] * 5, 10)]]
    ELSE IF scenario = "revenue_failure"
    THEN [p EXCEPT !.revenue_targets = [k \in 1..5 |-> FDiv(@[k] * 1, 10)]]
    ELSE p

\* stress_restore putting back the price only.
stress_restore_price_only(p, c) ==
    IF c.op = "stress_test" /\ c.scenario = "bear_market"
    THEN [p EXCEPT !.initial_price = c.original_price]
    ELSE p

\* Lines 368-370 and 396-397: the parameters after the run returned, from the
\* values saved in the call's locals original_price and original_targets.
stress_restore(p, c) ==
    IF c.op = "stress_test" /\ c.scenario = "bear_market"
    THEN [p EXCEPT !.initial_price   = c.original_price,
                   !.revenue_targets = c.original_targets]
    ELSE IF c.op = "stress_test" /\ c.scenario = "revenue_failure"
    THEN [p EXCEPT !.revenue_targets = c.original_targets]
    ELSE p

\* Lines 381-382: the proposal the governance_attack loop makes before the
\* step of loop index i.
attack_proposal(e, p, scenario, i) ==
    IF scenario = "governance_attack" /\ i % 6 = 0 /\ i > 0
    THEN simulate_governance_change(e, p, p.max_governance_increase).e
    ELSE e

(***************************************************************************)
(* Bounds of the exploration                                               *)
(***************************************************************************)
MaxMonth == 3              \* step() is called directly up to this month
MaxGovernanceEvents == 2   \* direct proposals while fewer events are logged
MaxRandomMonth == 2        \* draws after this month of a run are 0
MaxRunMonths == 12         \* run_simulation(n) for n in 0..MaxRunMonths
MaxTokens == 100000        \* |circulating_supply| explored
MaxPrice == 20000          \* price explored
MaxSlippage == 3000        \* -slippage_factor explored
MaxPriceChange == 50000    \* |revenue_support - supply_pressure| explored

\* The normal draws, in thousandths.
Perturbations == {-2000, 0, 500}

\* The proposals, in thousandths.
Proposals == {-160, -150, -100, -50, 100, 110}

\* eps is a draw step can make in state e.
Draw(e, eps) ==
    /\ estimate_volatility(e) = 0 => eps = 0
    /\ e.month + 1 > MaxRandomMonth => eps = 0

\* The step from e stays within the magnitudes explored (and within the
\* integers of the model checker).
StepInEnvelope(e, p, eps) ==
    LET m               == e.month + 1
        monthly_revenue == get_revenue(m, p)
    IN  /\ Abs(e.circulating_supply) <= MaxTokens
        /\ e.price >= 1
        /\ e.price <= MaxPrice
        /\ LET new_tokens == FDiv(e.circulating_supply * step_inflation_rate(e, p),
                                  RateScale * 12)
               e1 == [e EXCEPT !.month = m,
                               !.circulating_supply = @ + new_tokens]
               target == burn_target_usd(monthly_revenue, e1, p)
           IN  /\ (target >= p.min_burn_amount /\ e1.circulating_supply # 0)
                    => FDiv(FDiv(target, e1.price) * RateScale, e1.circulating_supply)
                          >= -MaxSlippage
               /\ LET auction == execute_burn_auction(monthly_revenue, e1, p)
                      e2 == auction.e
                  IN  /\ Abs(e2.circulating_supply) <= MaxTokens
                      /\ (~auction.raised /\ e2.circulating_supply # 0) =>
                           /\ Abs(FDiv(monthly_revenue * RateScale,
                                       e2.circulating_supply * e2.price)
                                  - FDiv((new_tokens - auction.tokens_burned) * RateScale,
                                         e2.circulating_supply))
                                <= MaxPriceChange
                           /\ update_price(new_tokens, auction.tokens_burned,
                                           monthly_revenue, e2, eps) <= MaxPrice

(***************************************************************************)
(* The state machine                                                       *)
(***************************************************************************)
Engine ==
    [ month                  |-> month,
      current_supply         |-> current_supply,
      circulating_supply     |-> circulating_supply,
      price                  |-> price,
      total_burned           |-> total_burned,
      treasury_usd           |-> treasury_usd,
      pol_size               |-> pol_size,
      security_budget_annual |-> security_budget_annual,
      last_governance_change |-> last_governance_change,
      current_inflation_rate |-> current_inflation_rate,
      current_burn_rate      |-> current_burn_rate,
      history                |-> history ]

SetEngine(e) ==
    /\ month' = e.month
    /\ current_supply' = e.current_supply
    /\ circulating_supply' = e.circulating_supply
    /\ price' = e.price
    /\ total_burned' = e.total_burned
    /\ treasury_usd' = e.treasury_usd
    /\ pol_size' = e.pol_size
    /\ security_budget_annual' = e.security_budget_annual
    /\ last_governance_change' = e.last_governance_change
    /\ current_inflation_rate' = e.current_inflation_rate
    /\ current_burn_rate' = e.current_burn_rate
    /\ history' = e.history

\* The engine's fields are those of e.
EngineIs(e) ==
    /\ month = e.month
    /\ current_supply = e.current_supply
    /\ circulating_supply = e.circulating_supply
    /\ price = e.price
    /\ total_burned = e.total_burned
    /\ treasury_usd = e.treasury_usd
    /\ pol_size = e.pol_size
    /\ security_budget_annual = e.security_budget_annual
    /\ last_governance_change = e.last_governance_change
    /\ current_inflation_rate = e.current_inflation_rate
    /\ current_burn_rate = e.current_burn_rate
    /\ history = e.history

\* draws: the values the random source gave the steps of the call, in order.
\* reused: the engine had left its reset state when the call was made.
NoCall ==
    [ op |-> "none", scenario |-> "none", months |-> 0, records |-> <<>>,
      original_price |-> 0, original_targets |-> <<>>,
      draws |-> <<>>, reused |-> FALSE ]

NoRet ==
    [ kind |-> "none", op |-> "none", delta |-> 0, months |-> 0,
      scenario |-> "none", accepted |-> FALSE, snapshot |-> NoSnapshot,
      records |-> <<>>, draws |-> <<>>, reused |-> FALSE ]

\* __init__: the parameters are stored and the state is reset.
Init ==
    /\ params \in ParameterSets
    /\ EngineIs(reset_state(params))
    /\ call = NoCall
    /\ entry_params = params
    /\ ret = NoRet

\* reset_state()
Reset ==
    /\ call.op = "none"
    /\ SetEngine(reset_state(params))
    /\ ret' = [NoRet EXCEPT !.kind = "return", !.op = "reset_state"]
    /\ UNCHANGED <<params, call, entry_params>>

\* step()
Step ==
    /\ call.op = "none"
    /\ month < MaxMonth
    /\ \E eps \in Perturbations :
         /\ Draw(Engine, eps)
         /\ StepInEnvelope(Engine, params, eps)
         /\ LET r == step(Engine, params, eps)
            IN  /\ SetEngine(r.e)
                /\ ret' = IF r.raised
                          THEN [NoRet EXCEPT !.kind = "raise", !.op = "step"]
                          ELSE [NoRet EXCEPT !.kind = "return", !.op = "step",
                                             !.snapshot = r.snapshot]
    /\ UNCHANGED <<params, call, entry_params>>

\* simulate_governance_change(delta)
Governance ==
    /\ call.op = "none"
    /\ Len(history.governance_events) < MaxGovernanceEvents
    /\ \E delta \in Proposals :
         LET r == simulate_governance_change(Engine, params, delta)
         IN  /\ SetEngine(r.e)
             /\ ret' = [NoRet EXCEPT !.kind = "return",
                                     !.op = "simulate_governance_change",
                                     !.delta = delta,
                                     !.accepted = r.accepted]
    /\ UNCHANGED <<params, call, entry_params>>

\* run_simulation(n) without the reset of line 351.
RunSimulation_without_reset ==
    /\ call.op = "none"
    /\ \E n \in 0..MaxRunMonths :
         call' = [NoCall EXCEPT !.op = "run_simulation", !.months = n,
                                !.reused = ~EngineIs(reset_state(params))]
    /\ entry_params' = params
    /\ ret' = NoRet
    /\ UNCHANGED <<params, engine>>

\* run_simulation(n): line 351, the reset.
RunSimulation ==
    /\ call.op = "none"
    /\ \E n \in 0..MaxRunMonths :
         call' = [NoCall EXCEPT !.op = "run_simulation", !.months = n,
                                !.reused = ~EngineIs(reset_state(params))]
    /\ SetEngine(reset_state(params))
    /\ entry_params' = params
    /\ ret' = NoRet
    /\ UNCHANGED params

\* stress_test(scenario) whose governance_attack omits the reset of line 377.
StressTest_attack_without_reset ==
    /\ call.op = "none"
    /\ \E scenario \in Scenarios :
         /\ call' = [NoCall EXCEPT !.op = "stress_test",
                                   !.scenario = scenario,
                                   !.months = StressMonths,
                                   !.original_price = params.initial_price,
                                   !.original_targets = params.revenue_targets,
                                   !.reused = ~EngineIs(reset_state(params))]
         /\ params' = stress_mutation(params, scenario)
         /\ IF scenario = "governance_attack"
            THEN UNCHANGED engine
            ELSE SetEngine(reset_state(params'))
    /\ entry_params' = params
    /\ ret' = NoRet

\* stress_test(scenario): the originals are saved, the parameters are
\* changed, and the run is started (run_simulation(60)'s reset, or line 377).
StressTest ==
    /\ call.op = "none"
    /\ \E scenario \in Scenarios :
         /\ call' = [NoCall EXCEPT !.op = "stress_test",
                                   !.scenario = scenario,
                                   !.months = StressMonths,
                                   !.original_price = params.initial_price,
                                   !.original_targets = params.revenue_targets,
                                   !.reused = ~EngineIs(reset_state(params))]
         /\ params' = stress_mutation(params, scenario)
    /\ SetEngine(reset_state(params'))
    /\ entry_params' = params
    /\ ret' = NoRet

\* One iteration of the loop of run_simulation (line 352) or of the
\* governance_attack scenario (lines 379-384).  A step that raises ends the call:
\* the exception leaves run_simulation and stress_test, which catch nothing.
RunStep ==
    /\ call.op # "none"
    /\ Len(call.records) < call.months
    /\ \E eps \in Perturbations :
         LET e == attack_proposal(Engine, params, call.scenario, Len(call.records))
         IN  /\ Draw(e, eps)
             /\ StepInEnvelope(e, params, eps)
             /\ LET r == step(e, params, eps)
                IN  /\ SetEngine(r.e)
                    /\ IF r.raised
                       THEN /\ call' = NoCall
                            /\ ret' = [NoRet EXCEPT !.kind = "raise",
                                                    !.op = call.op,
                                                    !.scenario = call.scenario,
                                                    !.months = call.months,
                                                    !.draws = call.draws,
                                                    !.reused = call.reused]
                       ELSE /\ call' = [call EXCEPT !.records = Append(@, r.snapshot),
                                                    !.draws = Append(@, eps)]
                            /\ ret' = ret
    /\ UNCHANGED <<params, entry_params>>

\* The loop is over: stress_test restores the parameters, and the call returns
\* the records.
RunReturn ==
    /\ call.op # "none"
    /\ Len(call.records) = call.months
    /\ params' = stress_restore(params, call)
    /\ ret' = [NoRet EXCEPT !.kind = "return", !.op = call.op,
                            !.scenario = call.scenario, !.months = call.months,
                            !.records = call.records, !.draws = call.draws,
                            !.reused = call.reused]
    /\ call' = NoCall
    /\ UNCHANGED <<engine, entry_params>>

Next ==
    \/ Reset
    \/ Step
    \/ Governance
    \/ RunSimulation
    \/ StressTest
    \/ RunStep
    \/ RunReturn

Spec == Init /\ [][Next]_vars

(***************************************************************************)
(* Properties                                                              *)
(***************************************************************************)
\* A step() call returns in this transition: a direct call, or the step of a
\* loop iteration of run_simulation / stress_test.
StepReturns ==
    \/ ret'.op = "step" /\ ret'.kind = "return"
    \/ call.op # "none" /\ call'.op # "none"
         /\ Len(call'.records) = Len(call.records) + 1

\* The snapshot the last step() returned.
ReturnedSnapshot ==
    IF call.op # "none"
    THEN IF call.records = <<>> THEN NoSnapshot ELSE call.records[Len(call.records)]
    ELSE ret.snapshot

\* The last step() call returned and nothing was called since.
AfterStep ==
    \/ ret.op = "step" /\ ret.kind = "return"
    \/ call.op # "none" /\ call.records # <<>>

\* C1: every step() that returns leaves the circulating supply at its value
\* before the step plus the returned snapshot's minted minus its burned.
C1_SupplyConservation ==
    [][StepReturns =>
         circulating_supply' = circulating_supply + ReturnedSnapshot'.minted
                                                  - ReturnedSnapshot'.burned]_vars

\* A step has minted and burned tokens.
C1_Witness ==
    AfterStep /\ ReturnedSnapshot.minted > 0 /\ ReturnedSnapshot.burned > 0

\* C2: a proposal is rejected exactly when delta > max_governance_increase or
\* delta < -max_governance_decrease (so -0.15 is accepted under the default
\* caps).
C2_RejectsExactlyOutsideCaps ==
    (ret.op = "simulate_governance_change" /\ ret.kind = "return") =>
        (ret.accepted <=> ~(\/ ret.delta > params.max_governance_increase
                            \/ ret.delta < -params.max_governance_decrease))

\* C3: the circulating supply is strictly positive in every reachable state.
C3_SupplyPositive == circulating_supply > 0

\* C4: after every step() that returns, the price is at least 0.01 (10
\* thousandths of a dollar), and so is the price of the snapshot.
C4_PriceFloor ==
    AfterStep => (price >= 10 /\ ReturnedSnapshot.price >= 10)

\* A step of the bear market of the thin market, which starts below the floor
\* (at 0.003), has clamped the price to the floor.
C4_Witness ==
    /\ AfterStep
    /\ params.initial_price < 10
    /\ price = 10

\* C5: when stress_test returns, the parameters are those before the call.
C5_StressTestRestores ==
    (ret.op = "stress_test" /\ ret.kind = "return") => params = entry_params

\* A bear market run, which changed initial_price and revenue_targets, returned.
C5_Witness ==
    /\ ret.op = "stress_test" /\ ret.kind = "return"
    /\ ret.scenario = "bear_market"
    /\ Len(ret.records) = StressMonths
    /\ stress_mutation(params, "bear_market") # params

\* C6: when stress_test is left by an exception, the parameters are those
\* before the call too.
C6_StressTestRestoresOnException ==
    (ret.op = "stress_test" /\ ret.kind = "raise") => params = entry_params

\* C7: every accepted proposal, logged or just returned, is at most
\* max_governance_increase when it is >= 0 and at least
\* -max_governance_decrease when it is < 0.
WithinCaps(delta) ==
    /\ delta >= 0 => delta <= params.max_governance_increase
    /\ delta < 0 => delta >= -params.max_governance_decrease

C7_AcceptedWithinCaps ==
    /\ \A i \in 1..Len(history.governance_events) :
          WithinCaps(history.governance_events[i].change)
    /\ (ret.op = "simulate_governance_change" /\ ret.accepted) => WithinCaps(ret.delta)

\* A decrease and an increase have both been accepted.
C7_Witness ==
    /\ \E i \in 1..Len(history.governance_events) :
          history.governance_events[i].change < 0
    /\ \E i \in 1..Len(history.governance_events) :
          history.governance_events[i].change > 0

\* C8: a rejected proposal returns (False) and leaves current_inflation_rate,
\* last_governance_change and the history, governance events included, as
\* they were.
C8_RejectionChangesNothing ==
    [][(ret'.op = "simulate_governance_change" /\ ~ret'.accepted) =>
         /\ ret'.kind = "return"
         /\ UNCHANGED <<current_inflation_rate, last_governance_change, history>>]_vars

\* A proposal was rejected in a month after that of the last accepted one.
C8_Witness ==
    /\ ret.op = "simulate_governance_change" /\ ret.kind = "return"
    /\ ~ret.accepted
    /\ history.governance_events # <<>>
    /\ last_governance_change < month

\* C9: total_burned is never negative, and no transition other than a reset
\* (which takes month back to 0) lowers it.
C9_TotalBurnedMonotone ==
    [][/\ total_burned >= 0
       /\ total_burned' >= 0
       /\ month' >= month => total_burned' >= total_burned]_vars

\* Two auctions of one run have burned tokens.
C9_Witness ==
    /\ Len(history.monthly_burns) >= 2
    /\ history.monthly_burns[Len(history.monthly_burns)] > 0
    /\ total_burned > history.monthly_burns[Len(history.monthly_burns)]

\* C10: every run_simulation(n) call returns n snapshots, of months 1..n in
\* this order.
C10_RunReturnsMonths ==
    ret.op = "run_simulation" =>
        /\ ret.kind = "return"
        /\ Len(ret.records) = ret.months
        /\ \A i \in 1..Len(ret.records) : ret.records[i].month = i

\* A step() executes in this transition (it returns or raises): only step
\* increments month.
StepExecutes == month' = month + 1

\* The tokens the executing step mints, from the state at its entry.
StepMints ==
    FDiv(circulating_supply * step_inflation_rate(Engine, params), RateScale * 12)

\* The state in which the executing step calls execute_burn_auction.
AuctionEntry ==
    [Engine EXCEPT !.month = @ + 1, !.circulating_supply = @ + StepMints]

\* The USD the executing step's auction aims to spend.
StepBurnTarget == burn_target_usd(get_revenue(month + 1, params), AuctionEntry, params)

\* C11: in every step whose monthly_revenue * burn_rate(month) is below
\* min_burn_amount, the auction returns tokens_burned = 0 and usd_spent = 0,
\* and the step leaves pol_size and total_burned as they were and the
\* circulating supply at its value after minting.
C11_BurnSkipLaw ==
    [][(StepExecutes /\ StepBurnTarget < params.min_burn_amount) =>
         LET auction == execute_burn_auction(get_revenue(month + 1, params),
                                             AuctionEntry, params)
         IN  /\ ~auction.raised
             /\ auction.tokens_burned = 0
             /\ auction.usd_spent = 0
             /\ pol_size' = pol_size
             /\ total_burned' = total_burned
             /\ circulating_supply' = circulating_supply + StepMints
             /\ StepReturns => ReturnedSnapshot'.burned = 0]_vars

\* A step skipped its auction (its revenue times the burn rate is below the
\* minimum) after earlier auctions of the run had burned tokens and fed the POL.
C11_Witness ==
    /\ AfterStep
    /\ burn_target_usd(ReturnedSnapshot.revenue, Engine, params) < params.min_burn_amount
    /\ ReturnedSnapshot.burned = 0
    /\ pol_size > 0
    /\ total_burned > 0

\* The engine e, of which records are the snapshots so far, after steps k..n,
\* of which step k draws draws[k]; a step that raises ends the run.
RECURSIVE RunFrom(_, _, _, _, _, _)
RunFrom(e, records, p, k, n, draws) ==
    IF k > n
    THEN [raised |-> FALSE, e |-> e, records |-> records]
    ELSE LET r == step(e, p, draws[k])
         IN  IF r.raised
             THEN [raised |-> TRUE, e |-> r.e, records |-> records]
             ELSE RunFrom(r.e, Append(records, r.snapshot), p, k + 1, n, draws)

\* The snapshots of the first n steps of an engine constructed with the
\* parameters p, of which step k draws draws[k].
FreshRun(p, n, draws) == RunFrom(reset_state(p), <<>>, p, 1, n, draws)

\* C12: a run_simulation(n) that returns, whatever was done on the engine
\* before it, returns the snapshots that a newly constructed engine with the
\* same parameters returns with the same sequence of random draws; two runs
\* with the same parameters and draws therefore return the same snapshots.
C12_RunDeterministic ==
    (ret.op = "run_simulation" /\ ret.kind = "return") =>
        ret.records = FreshRun(entry_params, ret.months, ret.draws).records

\* A run of two months or more, with a nonzero draw, returned on an engine
\* that had been used before the call.
C12_Witness ==
    /\ ret.op = "run_simulation" /\ ret.kind = "return"
    /\ ret.reused
    /\ Len(ret.records) >= 2
    /\ \E k \in 1..Len(ret.draws) : ret.draws[k] # 0

\* C13: when a run_simulation or stress_test call is about to execute its
\* first step(), the state is the reset state of the parameters in force:
\* month 0, circulating_supply = initial_circulating, price = initial_price,
\* total_burned = 0, pol_size = 0, and every history series empty, whatever
\* was done on the engine before the call.
C13_RunStartsReset ==
    (call.op # "none" /\ call.records = <<>>) =>
        /\ month = 0
        /\ circulating_supply = params.initial_circulating
        /\ price = params.initial_price
        /\ total_burned = 0
        /\ pol_size = 0
        /\ history = EmptyHistory
        /\ EngineIs(reset_state(params))

\* A governance_attack stress test is about to execute its first step on an
\* engine that had been used before the call.
C13_Witness ==
    /\ call.op = "stress_test" /\ call.scenario = "governance_attack"
    /\ call.records = <<>>
    /\ call.reused
    /\ month = 0

\* A bear market stress test is about to execute its first step at the
\* crashed price, on an engine that had been used before the call.
C13_WitnessBear ==
    /\ call.op = "stress_test" /\ call.scenario = "bear_market"
    /\ call.records = <<>>
    /\ call.reused
    /\ price = FDiv(call.original_price * 3, 10)

\* The numeric series of the history.
NumericSeries ==
    {"month", "price", "circulating_supply", "monthly_inflation", "monthly_burns",
     "net_supply_change", "market_cap", "revenue", "security_budget"}

\* C14: in every reachable state the nine numeric series of the history
\* have the same length, and the entries at one index describe one step:
\* its month is the index, its net supply change is its minted minus its
\* burned tokens, its market cap is its circulating supply times its price,
\* and its security budget is the budget that supply and price need.
C14_SeriesAligned ==
    /\ \A a, b \in NumericSeries : Len(history[a]) = Len(history[b])
    /\ \A i \in 1..Len(history.month) :
          /\ history.month[i] = i
          /\ history.net_supply_change[i]
                = history.monthly_inflation[i] - history.monthly_burns[i]
          /\ history.market_cap[i] = history.circulating_supply[i] * history.price[i]
          /\ history.security_budget[i]
                = calculate_security_budget_needed(history.circulating_supply[i],
                                                   history.price[i], params)

\* Direct calls: a step, an accepted proposal, and a step that burned tokens.
C14_Witness ==
    /\ call.op = "none"
    /\ ret.op = "step" /\ ret.kind = "return"
    /\ Len(history.month) >= 2
    /\ history.governance_events # <<>>
    /\ history.governance_events[1].month < month
    /\ history.monthly_burns[Len(history.month)] > 0

\* The executing step's auction is not skipped and does not raise.
AuctionExecutes ==
    /\ StepExecutes
    /\ StepBurnTarget >= params.min_burn_amount
    /\ AuctionEntry.circulating_supply # 0

\* C15: 0 <= pol_size <= pol_target_usd in every reachable state; every
\* executed auction adds min(burn_target_usd * 0.1, pol_target_usd - pol_size)
\* to pol_size when pol_size is below the target and nothing otherwise; and
\* no transition other than a reset (which takes month back to 0) lowers
\* pol_size.
C15_PolBounded ==
    [][/\ 0 <= pol_size /\ pol_size <= params.pol_target_usd
       /\ 0 <= pol_size' /\ pol_size' <= params'.pol_target_usd
       /\ AuctionExecutes =>
            pol_size' = pol_size +
                (IF pol_size < params.pol_target_usd
                 THEN Min(FDiv(StepBurnTarget, 10), params.pol_target_usd - pol_size)
                 ELSE 0)
       /\ month' >= month => pol_size' >= pol_size]_vars

\* The POL is at its target after an executed auction of a month by which
\* the target had been reached before.
C15_Witness ==
    /\ AfterStep
    /\ ReturnedSnapshot.burned > 0
    /\ pol_size = params.pol_target_usd
    /\ ReturnedSnapshot.month = StressMonths

\* The engine as it would be had no proposal been accepted since the reset.
WithoutGovernance ==
    [Engine EXCEPT !.current_inflation_rate = get_inflation_rate(month, params),
                   !.last_governance_change = 0,
                   !.history.governance_events = <<>>]

AttackEventsUpTo(n) ==
    LET made == IF n = 0 THEN 0 ELSE (n - 1) \div 6
    IN  /\ Len(history.governance_events) = made
        /\ \A k \in 1..made :
              /\ history.governance_events[k].month = 6 * k
              /\ history.governance_events[k].change = params.max_governance_increase

\* C17: stress_test("governance_attack") makes one proposal of
\* +max_governance_increase when the month counter is each of 6, 12, ..., 54
\* and none at another month, each is accepted and logged with that month,
\* and the call returns 60 snapshots of months 1..60.
C17_GovernanceAttack ==
    /\ (call.op = "stress_test" /\ call.scenario = "governance_attack") =>
          AttackEventsUpTo(Len(call.records))
    /\ (ret.op = "stress_test" /\ ret.scenario = "governance_attack") =>
          /\ ret.kind = "return"
          /\ Len(ret.records) = StressMonths
          /\ \A i \in 1..Len(ret.records) : ret.records[i].month = i
          /\ AttackEventsUpTo(StressMonths)
          /\ Len(history.governance_events) = 9

\* What holds of C17: the same, for the calls that return.
C17_GovernanceAttackWhenReturning ==
    /\ (call.op = "stress_test" /\ call.scenario = "governance_attack") =>
          AttackEventsUpTo(Len(call.records))
    /\ (ret.op = "stress_test" /\ ret.scenario = "governance_attack"
           /\ ret.kind = "return") =>
          /\ Len(ret.records) = StressMonths
          /\ \A i \in 1..Len(ret.records) : ret.records[i].month = i
          /\ AttackEventsUpTo(StressMonths)
          /\ Len(history.governance_events) = 9

\* The guard-band triggers in the executing step: monthly_revenue * 12 is
\* below required_security * fee_coverage_threshold, on the revenue of the new
\* month and the supply and price at entry to the step.
GuardBandTriggers ==
    LET required_security ==
            Max(params.security_floor_usd, FDiv(circulating_supply * price, 200))
    IN  get_revenue(month + 1, params) * 12 * RateScale
            < required_security * params.fee_coverage_threshold

\* The rate the executing step mints at.
EffectiveRate ==
    IF GuardBandTriggers
    THEN Max(get_inflation_rate(month + 1, params), params.guard_band_inflation)
    ELSE get_inflation_rate(month + 1, params)

\* C18: every returning step mints circulating_before * effective_rate / 12,
\* where effective_rate is max(schedule_rate, guard_band_inflation) when the
\* guard-band triggers and schedule_rate otherwise, so effective_rate >=
\* schedule_rate; a raising step has added as much to the supply before its
\* auction.
C18_GuardBandOnlyRaises ==
    [][StepExecutes =>
         /\ EffectiveRate >= get_inflation_rate(month + 1, params)
         /\ StepMints = FDiv(circulating_supply * EffectiveRate, RateScale * 12)
         /\ StepReturns =>
              ReturnedSnapshot'.minted
                = FDiv(circulating_supply * EffectiveRate, RateScale * 12)]_vars

\* A step minted at the guard-band rate, above the schedule's.
C18_Witness ==
    /\ AfterStep
    /\ ReturnedSnapshot.minted > 0
    /\ current_inflation_rate < params.guard_band_inflation
    /\ ReturnedSnapshot.minted * RateScale * 12
         > (ReturnedSnapshot.circulating - ReturnedSnapshot.minted
              + ReturnedSnapshot.burned) * current_inflation_rate
    /\ ReturnedSnapshot.minted
         = FDiv((ReturnedSnapshot.circulating - ReturnedSnapshot.minted
                   + ReturnedSnapshot.burned) * params.guard_band_inflation,
                RateScale * 12)

\* A step minted at the schedule rate although the guard-band had triggered
\* (the schedule rate is above the guard-band's), and another without trigger.
C18_WitnessNotLowered ==
    /\ AfterStep
    /\ ReturnedSnapshot.minted > 0
    /\ current_inflation_rate > params.guard_band_inflation
    /\ params.guard_band_inflation > 0

\* The parameters p with another "year_5+" entry.
OtherYear5Plus(p) ==
    [p EXCEPT !.inflation_schedule.year_5plus = @ + 500]

\* C19: after every returning step the inflation rate looked up is the
\* schedule's year_1, year_2, year_3 entry in years 1, 2, 3 and its year_4
\* entry in every later year (year = month div 12 + 1); and every run that
\* returns (run_simulation, or a stress test running it) returns the
\* snapshots it returns with another "year_5+" entry.
C19_Year4FromYear4On ==
    /\ AfterStep =>
          LET year == (month \div 12) + 1
          IN  current_inflation_rate =
                CASE year = 1 -> params.inflation_schedule.year_1
                  [] year = 2 -> params.inflation_schedule.year_2
                  [] year = 3 -> params.inflation_schedule.year_3
                  [] year >= 4 -> params.inflation_schedule.year_4
    /\ (ret.kind = "return" /\ ret.op \in {"run_simulation", "stress_test"}
           /\ ret.scenario # "governance_attack") =>
          ret.records =
              FreshRun(stress_mutation(OtherYear5Plus(entry_params), ret.scenario),
                       ret.months, ret.draws).records

\* A 60-month run has returned: its last steps, of months 48 to 60, are of
\* years 5 and 6 and looked up the year_4 entry.
C19_Witness ==
    /\ ret.op = "stress_test" /\ ret.kind = "return" /\ ret.scenario = "other"
    /\ Len(ret.records) = StressMonths
    /\ month = StressMonths
    /\ (month \div 12) + 1 > 5
    /\ current_inflation_rate = params.inflation_schedule.year_4
    /\ ret.records[49].minted > 0

\* C20: an accepted proposal sets current_inflation_rate to
\* max(0, current_inflation_rate + delta) and last_governance_change to the
\* month, appends the one event {month, change = delta, new_rate = the
\* resulting rate}, and changes nothing else; current_inflation_rate is never
\* negative.
C20_AcceptedChange ==
    [][/\ current_inflation_rate >= 0
       /\ current_inflation_rate' >= 0
       /\ (ret'.op = "simulate_governance_change" /\ ret'.accepted) =>
            /\ ret'.kind = "return"
            /\ current_inflation_rate' = Max(0, current_inflation_rate + ret'.delta)
            /\ last_governance_change' = month
            /\ history' =
                 [history EXCEPT !.governance_events =
                     Append(@, [month    |-> month,
                                change   |-> ret'.delta,
                                new_rate |-> current_inflation_rate'])]
            /\ UNCHANGED <<params, month, current_supply, circulating_supply,
                           price, total_burned, treasury_usd, pol_size,
                           security_budget_annual, current_burn_rate>>]_vars

\* A decrease below zero was accepted after a step: the rate is 0, and so is
\* the new_rate of its event.
C20_Witness ==
    /\ ret.op = "simulate_governance_change" /\ ret.accepted
    /\ month > 0
    /\ Len(history.month) = month
    /\ get_inflation_rate(month, params) + ret.delta < 0
    /\ current_inflation_rate = 0
    /\ last_governance_change = month
    /\ history.governance_events[Len(history.governance_events)]
         = [month |-> month, change |-> ret.delta, new_rate |-> 0]

\* An increase was accepted after a step.
C20_WitnessIncrease ==
    /\ ret.op = "simulate_governance_change" /\ ret.accepted
    /\ month > 0
    /\ ret.delta > 0
    /\ current_inflation_rate = get_inflation_rate(month, params) + ret.delta

RECURSIVE SumTo(_, _)
SumTo(series, n) == IF n = 0 THEN 0 ELSE SumTo(series, n - 1) + series[n]

Sum(series) == SumTo(series, Len(series))

\* C22: in every reachable state circulating_supply = initial_circulating
\* + the sum of the monthly_inflation series - total_burned, total_burned =
\* the sum of the monthly_burns series, and the history has month entries.
C22_CumulativeConservation ==
    /\ circulating_supply
         = params.initial_circulating + Sum(history.monthly_inflation) - total_burned
    /\ total_burned = Sum(history.monthly_burns)
    /\ Len(history.month) = month

\* What holds of C22: the same, in the states no raising step has left.
C22_ConservationUnlessRaised ==
    Len(history.month) = month =>
        /\ circulating_supply
             = params.initial_circulating + Sum(history.monthly_inflation)
                 - total_burned
        /\ total_burned = Sum(history.monthly_burns)

====
